---- MODULE Spec2Model ----
(***************************************************************************)
(* Model of the AWX relay service (src/src/ansible_agent/app.py): the      *)
(* hostname sanitizer, the two rate limits that wrap POST /provision, the  *)
(* controller client (resolve GET, then launch POST) and the mapping of    *)
(* its result to an HTTP response.                                         *)
(***************************************************************************)
EXTENDS Integers, Sequences, FiniteSets, TLC

(***************************************************************************)
(* Bounds of the model and configured values.                              *)
(***************************************************************************)
\* PER_IP_RATE_LIMIT = "<PerIpLimit> per <PerIpWindow> ticks"
PerIpLimit == 1
PerIpWindow == 2
\* GLOBAL_RATE_LIMIT = "<GlobalLimit> per <GlobalWindow> ticks"
GlobalLimit == 2
GlobalWindow == 3
\* the clock stops at MaxTime, and at most MaxRequests requests are received
MaxTime == 3
MaxRequests == 3
\* MAX_HOSTNAME_LENGTH / MIN_HOSTNAME_LENGTH as configured for the model
MAX_HOSTNAME_LENGTH == 4
MIN_HOSTNAME_LENGTH == 1
\* the {0,61} of the label pattern
LabelInnerMax == 61

Clients == {"10.0.0.1", "10.0.0.2"}
Reqs == {"w1"}
GlobalKey == "global"
Keys == Clients \cup {GlobalKey}

(***************************************************************************)
(* Strings are sequences of one-character strings.  None is Python's None. *)
(***************************************************************************)
None == <<"<None>">>

\* the hostnames posted to /provision
PostedHostnames ==
    { <<>>,                        \* ''
      <<"-", "a">>,                \* leading hyphen: rejected
      <<" ", "A", ".", "b">> }     \* upper case after whitespace: accepted

IsSpace(c) == c \in {" ", "\t", "\n"}

\* the character class \w
IsAlnum_word(c) == c \in {"a", "b", "A", "B", "0", "1", "_"}

IsAlnum(c) == c \in {"a", "b", "A", "B", "0", "1"}

\* lower() left out
lower_char_kept(c) == c

lower_char(c) == CASE c = "A" -> "a" [] c = "B" -> "b" [] OTHER -> c

lower(s) == [i \in 1..Len(s) |-> lower_char(s[i])]

RECURSIVE lstrip(_)
lstrip(s) == IF s # <<>> /\ IsSpace(Head(s)) THEN lstrip(Tail(s)) ELSE s

RECURSIVE rstrip(_)
rstrip(s) ==
    IF s # <<>> /\ IsSpace(s[Len(s)]) THEN rstrip(SubSeq(s, 1, Len(s) - 1)) ELSE s

strip(s) == rstrip(lstrip(s))

\* [a-zA-Z0-9]([a-zA-Z0-9\-]{0,61}[a-zA-Z0-9])?
IsLabel(s) ==
    /\ Len(s) >= 1
    /\ Len(s) <= LabelInnerMax + 2
    /\ IsAlnum(s[1])
    /\ IsAlnum(s[Len(s)])
    /\ \A i \in 1..Len(s) : IsAlnum(s[i]) \/ s[i] = "-"

\* ^label(\.label)*$ : every maximal dot-free piece of s is a label
hostname_pattern(s) ==
    LET dots == {0, Len(s) + 1} \cup {i \in 1..Len(s) : s[i] = "."}
    IN  \A i \in dots : \A j \in dots :
            (i < j /\ \A k \in dots : ~(i < k /\ k < j))
                => IsLabel(SubSeq(s, i + 1, j - 1))

\* the four suspicious patterns, searched anywhere in s
suspicious_patterns(s) ==
    \/ \E i \in 1..(Len(s) - 1) : s[i] = "." /\ s[i + 1] = "."
    \/ (s # <<>> /\ s[1] = "-")
    \/ (s # <<>> /\ s[Len(s)] = "-")
    \/ \E i \in 1..Len(s) : ~(IsAlnum(s[i]) \/ s[i] = "." \/ s[i] = "-")

sanitize_hostname(hostname) ==
    IF hostname = None \/ hostname = <<>> THEN None
    ELSE LET h == lower(strip(hostname))
         IN  IF Len(h) < MIN_HOSTNAME_LENGTH \/ Len(h) > MAX_HOSTNAME_LENGTH
             THEN None
             ELSE IF ~hostname_pattern(h) THEN None
             ELSE IF suspicious_patterns(h) THEN None
             ELSE h

(***************************************************************************)
(* Requests, responses and the state of the service.                       *)
(***************************************************************************)
\* what POST /provision carries: a JSON object or form without the field,
\* a JSON body that is no object (a non-empty array), a hostname that is no
\* string (a number), or a hostname string
Bodies ==
    {[kind |-> k, hostname |-> None] : k \in {"nofield", "nonobject"}}
        \cup {[kind |-> "string", hostname |-> h] : h \in PostedHostnames}

JobIds == {41}

NoResp ==
    [status |-> 0, keys |-> {}, error |-> "", success |-> FALSE,
     hostname |-> None, job_id |-> 0, job_type |-> ""]

\* the value trigger_awx_job has not returned yet
NoResult ==
    [kind |-> "pending", success |-> FALSE, error |-> "", job_id |-> 0,
     job_type |-> "", hostname |-> None]

IdleReq ==
    [pc |-> "idle", client |-> "", body |-> [kind |-> "nofield", hostname |-> None],
     idx |-> 0, ipBefore |-> -1, ipCount |-> 0, glBefore |-> -1, glCount |-> 0,
     ipRoll |-> FALSE, ipExpiry |-> -1,
     hostname |-> None, calls |-> <<>>, result |-> NoResult, resp |-> NoResp]

VARIABLES
    config,      \* Config: which of AWX_TEMPLATE_NAME / AWX_WORKFLOW_NAME are set
    development, \* FLASK_ENV = 'development'
    limitOrder,  \* the order in which the limiter evaluates the route's limits
    now,         \* the clock the limiter's storage reads
    storage,     \* the limiter's counters: key -> [count, expiry]
    winStart,    \* history: when the current window of a key began
    passes,      \* history: hits of a key within its limit, in its current window
    breach,      \* history: end of the window of a client's last per-IP rejection
    req,         \* the request each worker is handling
    received,    \* number of requests received so far
    health,      \* the last GET /health: [status, exhausted, consumed]
    redisUp,     \* the Redis server answers
    store,       \* the storage the limiter was built with: "redis" or "memory"
    san          \* a call of sanitize_hostname: [pc, input, once, twice]

vars ==
    <<config, development, limitOrder, now, storage, winStart, passes, breach,
      req, received, health, redisUp, store, san>>

\* no call of sanitize_hostname is being followed
SanOff == [pc |-> "off", input |-> None, once |-> None, twice |-> None]

\* storage_uri: redis_url if the ping at startup succeeded, else None
storage_uri(pinged) == IF pinged THEN "redis" ELSE "memory"

\* the check against both names left out
validate_either(cfg) == cfg.AWX_TEMPLATE_NAME \/ cfg.AWX_WORKFLOW_NAME

\* Config.validate, the two checks on the template and workflow names
validate(cfg) ==
    /\ cfg.AWX_TEMPLATE_NAME \/ cfg.AWX_WORKFLOW_NAME
    /\ ~(cfg.AWX_TEMPLATE_NAME /\ cfg.AWX_WORKFLOW_NAME)

Configs == [AWX_TEMPLATE_NAME : BOOLEAN, AWX_WORKFLOW_NAME : BOOLEAN]

\* the two limits of POST /provision
PER_IP_RATE_LIMIT == [name |-> "ip", amount |-> PerIpLimit, window |-> PerIpWindow]

GLOBAL_RATE_LIMIT == [name |-> "global", amount |-> GlobalLimit, window |-> GlobalWindow]

\* the global limit applied to every route
default_limits_global == {GLOBAL_RATE_LIMIT}

\* limits applied to routes that carry no limit of their own
default_limits == {}

\* the route with the per-IP limit only
LimitOrders_per_ip_only == { <<PER_IP_RATE_LIMIT>> }

\* the limits of the route, in either order of evaluation
LimitOrders ==
    { <<PER_IP_RATE_LIMIT, GLOBAL_RATE_LIMIT>>, <<GLOBAL_RATE_LIMIT, PER_IP_RATE_LIMIT>> }

\* key_func of a limit: get_remote_address, or lambda: 'global'
key_func(lim, client) == IF lim.name = "ip" THEN client ELSE GlobalKey

\* the counters, the workers and the probes before the first request
Fresh(workers) ==
    /\ now = 0
    /\ storage = [k \in Keys |-> [count |-> 0, expiry |-> 0]]
    /\ winStart = [k \in Keys |-> 0]
    /\ passes = [k \in Keys |-> 0]
    /\ breach = [c \in Clients |-> -1]
    /\ req = [r \in workers |-> IdleReq]
    /\ received = 0
    /\ health = [status |-> 0, exhausted |-> FALSE, consumed |-> FALSE]

\* the service started without a Redis server, as under the tests: the
\* limiter counts in memory
Init ==
    /\ config \in Configs
    /\ development \in BOOLEAN
    /\ validate(config) \/ development
    /\ limitOrder \in LimitOrders
    /\ redisUp = FALSE
    /\ store = storage_uri(redisUp)
    /\ san = SanOff
    /\ Fresh(Reqs)

(***************************************************************************)
(* The limiter's storage: a fixed window that opens at the first hit.      *)
(***************************************************************************)
\* every hit moves the end of the window
elastic_expiry_on == TRUE

\* the fixed-window strategy never moves the end of an open window
elastic_expiry == FALSE

\* the counter of a key; an expired key reads 0
get(st, key, t) == IF st[key].expiry <= t THEN 0 ELSE st[key].count

\* the counter overwritten instead of incremented
incr_overwrite(st, key, window, t) ==
    [st EXCEPT ![key] = [count |-> 1, expiry |-> t + window]]

\* storage.incr: count one hit, opening a window when the key was expired
incr(st, key, window, t) ==
    LET c == get(st, key, t) + 1
    IN  [st EXCEPT ![key] =
            [count |-> c,
             expiry |-> IF elastic_expiry \/ c = 1 THEN t + window ELSE st[key].expiry]]

\* an off-by-one comparison
within_off_by_one(count, amount) == count <= amount + 1

\* the limiter can reach the storage it was built with
StorageReachable == store = "memory" \/ redisUp

\* the limiter built with in_memory_fallback_enabled
in_memory_fallback_on == TRUE

\* the limiter has no fallback storage to switch to
in_memory_fallback_enabled == FALSE

\* limiter.hit: the hit is within the limit
within(count, amount) == count <= amount

jsonify_error(msg, status) ==
    [NoResp EXCEPT !.status = status, !.keys = {"error"}, !.error = msg]

\* errorhandler(429)
ratelimit_handler ==
    [NoResp EXCEPT !.status = 429, !.keys = {"error", "message", "retry_after"},
                   !.error = "Rate limit exceeded"]

\* the route without its decorators
entry_pc_unwrapped == "body"

\* the decorators wrap provision: a request meets the limiter first
entry_pc == "limits"

\* a request arrives at a free worker
Receive(r, c, b) ==
    /\ req[r].pc = "idle"
    /\ received < MaxRequests
    /\ received' = received + 1
    /\ req' = [req EXCEPT ![r] = [IdleReq EXCEPT !.pc = entry_pc, !.client = c,
                                                 !.body = b, !.idx = 1]]
    /\ UNCHANGED <<san, redisUp, store, config, development, limitOrder, now, storage, winStart,
                   passes, breach, health>>

\* the limiter evaluates the next limit of the route: one atomic hit of its
\* key; a breached limit ends the request with 429, the last limit passed
\* lets the handler body run
EvaluateLimit(r) ==
    /\ req[r].pc = "limits"
    /\ StorageReachable
    /\ LET lim == limitOrder[req[r].idx]
           key == key_func(lim, req[r].client)
           st == incr(storage, key, lim.window, now)
           before == get(storage, key, now)
           cnt == st[key].count
           ok == within(cnt, lim.amount)
           opened == cnt = 1
           start == IF opened THEN now ELSE winStart[key]
           rolled == lim.name = "ip" /\ breach[key] >= 0 /\ now >= breach[key]
           seen == IF lim.name = "ip"
                   THEN [req[r] EXCEPT !.ipBefore = before, !.ipCount = cnt,
                                       !.ipRoll = rolled,
                                       !.ipExpiry = st[key].expiry]
                   ELSE [req[r] EXCEPT !.glBefore = before, !.glCount = cnt]
       IN  /\ storage' = st
           /\ winStart' = [winStart EXCEPT ![key] = start]
           /\ passes' = [passes EXCEPT ![key] =
                            (IF opened THEN 0 ELSE @) + (IF ok THEN 1 ELSE 0)]
           /\ breach' = IF lim.name = "ip" /\ ~ok
                        THEN [breach EXCEPT ![key] = start + lim.window]
                        ELSE breach
           /\ req' = [req EXCEPT ![r] =
                        IF ~ok
                        THEN [seen EXCEPT !.pc = "done", !.resp = ratelimit_handler]
                        ELSE IF req[r].idx = Len(limitOrder)
                        THEN [seen EXCEPT !.pc = "body"]
                        ELSE [seen EXCEPT !.idx = @ + 1]]
    /\ UNCHANGED <<san, redisUp, store, config, development, limitOrder, now, received, health>>

\* time passes
Tick ==
    /\ now < MaxTime
    /\ now' = now + 1
    /\ UNCHANGED <<san, redisUp, store, config, development, limitOrder, storage, winStart, passes,
                   breach, req, received, health>>

(***************************************************************************)
(* The controller client, trigger_awx_job.                                 *)
(***************************************************************************)
Failure(msg) == [NoResult EXCEPT !.kind = "failure", !.success = FALSE, !.error = msg]

Success(jid, jtype, hostname) ==
    [NoResult EXCEPT !.kind = "success", !.success = TRUE, !.job_id = jid,
                     !.job_type = jtype, !.hostname = hostname]

\* the function fell off its end: Python's None
ReturnedNone == [NoResult EXCEPT !.kind = "none"]

\* the workflow name tested first
job_type_workflow_first(cfg) ==
    IF cfg.AWX_WORKFLOW_NAME THEN "workflow"
    ELSE IF cfg.AWX_TEMPLATE_NAME THEN "template"
    ELSE "neither"

\* which branch of trigger_awx_job runs
job_type(cfg) ==
    IF cfg.AWX_TEMPLATE_NAME THEN "template"
    ELSE IF cfg.AWX_WORKFLOW_NAME THEN "workflow"
    ELSE "neither"

not_found(jtype) == IF jtype = "template" THEN "Template not found" ELSE "Workflow not found"

\* what an outbound call can come to
GetOutcomes == {"timeout", "error", "unexpected", "empty", "found"}
PostOutcomes == {"timeout", "error", "unexpected", "ok"}

\* the clause for RequestException placed before the one for Timeout
except_result_request_first(outcome) ==
    IF outcome \in {"timeout", "error"} THEN Failure("AWX API error: detail")
    ELSE Failure("Unexpected error: detail")

\* the three except clauses
except_result(outcome) ==
    IF outcome = "timeout" THEN Failure("AWX API timeout")
    ELSE IF outcome = "error" THEN Failure("AWX API error: detail")
    ELSE Failure("Unexpected error: detail")

\* the check of the result list left out
no_results_unchecked(outcome) == FALSE

\* the result list of the resolve GET is empty
no_results(outcome) == outcome = "empty"

\* raise_for_status left out after the resolve GET
after_resolve_no_raise(jtype, outcome) ==
    IF outcome \in {"timeout", "unexpected"} THEN except_result(outcome)
    ELSE IF no_results(outcome) THEN Failure(not_found(jtype))
    ELSE NoResult

\* what trigger_awx_job returns after the resolve GET; "pending": it goes on
\* to the launch POST
after_resolve(jtype, outcome) ==
    IF outcome \in {"timeout", "error", "unexpected"} THEN except_result(outcome)
    ELSE IF no_results(outcome) THEN Failure(not_found(jtype))
    ELSE NoResult

\* what trigger_awx_job returns after the launch POST
after_launch(jtype, outcome, jid, hostname) ==
    IF outcome = "ok" THEN Success(jid, jtype, hostname) ELSE except_result(outcome)

(***************************************************************************)
(* The handler body, provision.                                            *)
(***************************************************************************)
\* the success response with a fixed job type
respond_fixed_type(result, sanitized_hostname) ==
    IF result.kind = "none"
    THEN jsonify_error("Internal server error", 500)
    ELSE IF result.success
    THEN [NoResp EXCEPT !.status = 200,
                        !.keys = {"success", "hostname", "job_id", "job_type", "message"},
                        !.success = TRUE, !.hostname = sanitized_hostname,
                        !.job_id = result.job_id, !.job_type = "template"]
    ELSE [NoResp EXCEPT !.status = 500, !.keys = {"success", "hostname", "error"},
                        !.success = FALSE, !.hostname = sanitized_hostname,
                        !.error = result.error]

\* the failure response without its status
respond_failure_200(result, sanitized_hostname) ==
    IF result.kind = "none"
    THEN jsonify_error("Internal server error", 500)
    ELSE IF result.success
    THEN [NoResp EXCEPT !.status = 200,
                        !.keys = {"success", "hostname", "job_id", "job_type", "message"},
                        !.success = TRUE, !.hostname = sanitized_hostname,
                        !.job_id = result.job_id, !.job_type = result.job_type]
    ELSE [NoResp EXCEPT !.status = 200, !.keys = {"success", "hostname", "error"},
                        !.success = FALSE, !.hostname = sanitized_hostname,
                        !.error = result.error]

\* the response built from the client's result
respond(result, sanitized_hostname) ==
    IF result.kind = "none"
    THEN jsonify_error("Internal server error", 500)
    ELSE IF result.success
    THEN [NoResp EXCEPT !.status = 200,
                        !.keys = {"success", "hostname", "job_id", "job_type", "message"},
                        !.success = TRUE, !.hostname = sanitized_hostname,
                        !.job_id = result.job_id, !.job_type = result.job_type]
    ELSE [NoResp EXCEPT !.status = 500, !.keys = {"success", "hostname", "error"},
                        !.success = FALSE, !.hostname = sanitized_hostname,
                        !.error = result.error]

\* only the empty string counts as missing
missing_empty_only(body) == body.kind = "string" /\ body.hostname = <<>>

\* "not hostname": the field is absent or the empty string
missing(body) == body.kind = "nofield" \/ (body.kind = "string" /\ body.hostname = <<>>)

\* the handler body up to the call of trigger_awx_job
Validate(r) ==
    /\ req[r].pc = "body"
    /\ LET b == req[r].body
           sanitized_hostname == sanitize_hostname(b.hostname)
       IN  req' = [req EXCEPT ![r] =
                IF b.kind = "nonobject"
                THEN [@ EXCEPT !.pc = "done",
                               !.resp = jsonify_error("Internal server error", 500)]
                ELSE IF missing(b)
                THEN [@ EXCEPT !.pc = "done",
                               !.resp = jsonify_error("hostname parameter is required", 400)]
                ELSE IF b.kind = "nonstring"
                THEN [@ EXCEPT !.pc = "done",
                               !.resp = jsonify_error("Internal server error", 500)]
                ELSE IF sanitized_hostname = None
                THEN [@ EXCEPT !.pc = "done",
                               !.resp = jsonify_error("Invalid hostname format", 400)]
                ELSE [@ EXCEPT !.pc = "resolve", !.hostname = sanitized_hostname]]
    /\ UNCHANGED <<san, redisUp, store, config, development, limitOrder, now, storage, winStart,
                   passes, breach, received, health>>

\* trigger_awx_job up to the end of the resolve GET
Resolve(r, outcome) ==
    /\ req[r].pc = "resolve"
    /\ LET jtype == job_type(config)
           result == after_resolve(jtype, outcome)
           call == [method |-> "GET", endpoint |-> jtype, hostname |-> None,
                    outcome |-> outcome]
       IN  req' = [req EXCEPT ![r] =
                IF jtype = "neither"
                THEN [@ EXCEPT !.pc = "done", !.result = ReturnedNone,
                               !.resp = respond(ReturnedNone, req[r].hostname)]
                ELSE IF result.kind = "pending"
                THEN [@ EXCEPT !.pc = "launch", !.calls = Append(@, call)]
                ELSE [@ EXCEPT !.pc = "done", !.calls = Append(@, call),
                               !.result = result,
                               !.resp = respond(result, req[r].hostname)]]
    /\ UNCHANGED <<san, redisUp, store, config, development, limitOrder, now, storage, winStart,
                   passes, breach, received, health>>

\* the launch POST, the end of trigger_awx_job and the response
Launch(r, outcome, jid) ==
    /\ req[r].pc = "launch"
    /\ LET jtype == job_type(config)
           result == after_launch(jtype, outcome, jid, req[r].hostname)
           call == [method |-> "POST", endpoint |-> jtype, hostname |-> req[r].hostname,
                    outcome |-> outcome]
       IN  req' = [req EXCEPT ![r] =
                [@ EXCEPT !.pc = "done", !.calls = Append(@, call), !.result = result,
                          !.resp = respond(result, req[r].hostname)]]
    /\ UNCHANGED <<san, redisUp, store, config, development, limitOrder, now, storage, winStart,
                   passes, breach, received, health>>

\* the response has been sent and the worker is free again
Complete(r) ==
    /\ req[r].pc = "done"
    /\ req' = [req EXCEPT ![r] = IdleReq]
    /\ UNCHANGED <<san, redisUp, store, config, development, limitOrder, now, storage, winStart,
                   passes, breach, received, health>>

(***************************************************************************)
(* GET /health: a route with no limit of its own.                          *)
(***************************************************************************)
RECURSIVE hit_all(_, _, _, _)
hit_all(st, lims, client, t) ==
    IF lims = {} THEN st
    ELSE LET lim == CHOOSE x \in lims : TRUE
         IN  hit_all(incr(st, key_func(lim, client), lim.window, t),
                     lims \ {lim}, client, t)

exhausted(st, client, t) ==
    /\ get(st, client, t) >= PerIpLimit
    /\ get(st, GlobalKey, t) >= GlobalLimit

health_check(c) ==
    LET st == hit_all(storage, default_limits, c, now)
        ok == \A lim \in default_limits :
                 within(st[key_func(lim, c)].count, lim.amount)
    IN  /\ storage' = st
        /\ health' = [status |-> IF ok THEN 200 ELSE 429,
                      exhausted |-> exhausted(storage, c, now),
                      consumed |-> st # storage]
        /\ UNCHANGED <<san, redisUp, store, config, development, limitOrder, now, winStart, passes,
                       breach, req, received>>

Next ==
    \/ \E r \in Reqs, c \in Clients, b \in Bodies : Receive(r, c, b)
    \/ \E r \in Reqs : EvaluateLimit(r)
    \/ \E r \in Reqs : Validate(r)
    \/ \E r \in Reqs, o \in GetOutcomes : Resolve(r, o)
    \/ \E r \in Reqs, o \in PostOutcomes, j \in JobIds : Launch(r, o, j)
    \/ \E r \in Reqs : Complete(r)
    \/ \E c \in Clients : health_check(c)
    \/ Tick

Spec == Init /\ [][Next]_vars

(***************************************************************************)
(* Two workers that handle requests at the same time.  The requests carry  *)
(* no hostname: they end in the handler body, after the limiter.           *)
(***************************************************************************)
ConcReqs == {"w1", "w2"}

NoHostname == [kind |-> "nofield", hostname |-> None]

ConcInit ==
    /\ config = [AWX_TEMPLATE_NAME |-> TRUE, AWX_WORKFLOW_NAME |-> FALSE]
    /\ development = FALSE
    /\ limitOrder \in LimitOrders
    /\ redisUp = FALSE
    /\ store = storage_uri(redisUp)
    /\ san = SanOff
    /\ Fresh(ConcReqs)

ConcNext ==
    \/ \E r \in ConcReqs, c \in Clients : Receive(r, c, NoHostname)
    \/ \E r \in ConcReqs : EvaluateLimit(r)
    \/ \E r \in ConcReqs : Validate(r)
    \/ \E r \in ConcReqs : Complete(r)
    \/ Tick

ConcSpec == ConcInit /\ [][ConcNext]_vars

(***************************************************************************)
(* The storage of the limiter, chosen at startup, and a Redis server that  *)
(* comes and goes afterwards.                                              *)
(***************************************************************************)
\* the 500 of the framework for an exception that left the view
flask_500 == [NoResp EXCEPT !.status = 500]

StoreInit ==
    /\ config = [AWX_TEMPLATE_NAME |-> TRUE, AWX_WORKFLOW_NAME |-> FALSE]
    /\ development = FALSE
    /\ limitOrder \in LimitOrders
    /\ redisUp \in BOOLEAN
    /\ store = storage_uri(redisUp)
    /\ san = SanOff
    /\ Fresh(Reqs)

\* the Redis server goes away or comes back
RedisChanges ==
    /\ redisUp' = ~redisUp
    /\ UNCHANGED <<config, development, limitOrder, now, storage, winStart, passes,
                   breach, req, received, health, store, san>>

\* the limiter cannot reach its storage: the hit raises
StorageError(r) ==
    /\ req[r].pc = "limits"
    /\ ~StorageReachable
    /\ IF in_memory_fallback_enabled
       THEN /\ store' = "memory"
            /\ storage' = [k \in Keys |-> [count |-> 0, expiry |-> 0]]
            /\ req' = req
       ELSE /\ store' = store
            /\ storage' = storage
            /\ req' = [req EXCEPT ![r] = [@ EXCEPT !.pc = "done", !.resp = flask_500]]
    /\ UNCHANGED <<config, development, limitOrder, now, winStart, passes, breach,
                   received, health, redisUp, san>>

StoreNext ==
    \/ \E r \in Reqs, c \in Clients : Receive(r, c, NoHostname)
    \/ \E r \in Reqs : EvaluateLimit(r)
    \/ \E r \in Reqs : StorageError(r)
    \/ \E r \in Reqs : Validate(r)
    \/ \E r \in Reqs : Complete(r)
    \/ RedisChanges
    \/ Tick

StoreSpec == StoreInit /\ [][StoreNext]_vars

(***************************************************************************)
(* sanitize_hostname on its own: every string over SanAlphabet of at most  *)
(* MaxStrLen characters, and None, sanitized once and then once more.      *)
(***************************************************************************)
MaxStrLen == 5

SanAlphabet == {"a", "A", "-", ".", " ", "_"}

SanInputs == {None} \cup UNION {[1..k -> SanAlphabet] : k \in 0..MaxStrLen}

SanInit ==
    /\ san \in {[SanOff EXCEPT !.pc = "input", !.input = h] : h \in SanInputs}
    /\ config = [AWX_TEMPLATE_NAME |-> TRUE, AWX_WORKFLOW_NAME |-> FALSE]
    /\ development = FALSE
    /\ limitOrder = <<PER_IP_RATE_LIMIT, GLOBAL_RATE_LIMIT>>
    /\ redisUp = FALSE
    /\ store = storage_uri(redisUp)
    /\ Fresh(Reqs)

SanitizeOnce ==
    /\ san.pc = "input"
    /\ san' = [san EXCEPT !.pc = "once", !.once = sanitize_hostname(san.input)]
    /\ UNCHANGED <<config, development, limitOrder, now, storage, winStart, passes,
                   breach, req, received, health, redisUp, store>>

SanitizeTwice ==
    /\ san.pc = "once"
    /\ san' = [san EXCEPT !.pc = "twice", !.twice = sanitize_hostname(san.once)]
    /\ UNCHANGED <<config, development, limitOrder, now, storage, winStart, passes,
                   breach, req, received, health, redisUp, store>>

SanNext == SanitizeOnce \/ SanitizeTwice

SanSpec == SanInit /\ [][SanNext]_vars

(***************************************************************************)
(* Properties.                                                             *)
(***************************************************************************)
Done(r) == req[r].pc = "done"

\* the limiter let the request through to the handler body
Admitted(r) ==
    \/ req[r].pc \in {"body", "resolve", "launch"}
    \/ (Done(r) /\ req[r].resp.status # 429)

\* C1: a request answered 400 (missing or invalid hostname) was counted by
\* both limits before the handler body ran: the per-IP counter of its client
\* and the global counter each went up by one on its behalf.
C1_Invalid400ConsumesUnit ==
    \A r \in Reqs :
        (Done(r) /\ req[r].resp.status = 400)
            => /\ req[r].ipBefore >= 0
               /\ req[r].ipCount = req[r].ipBefore + 1
               /\ req[r].glBefore >= 0
               /\ req[r].glCount = req[r].glBefore + 1

C1_Witness ==
    \E r \in Reqs :
        /\ Done(r)
        /\ req[r].resp.status = 400
        /\ req[r].resp.error = "Invalid hostname format"
        /\ req[r].ipCount = 1
        /\ req[r].glCount = 2

\* C2: within one window of a client's key, the request that is the N-th to
\* hit the key is admitted when the global limit has capacity, every request
\* after the N-th is answered 429, and no key passes more hits than its
\* limit in one window.
C2_NthAdmittedNextRejected ==
    /\ \A r \in Reqs :
          Done(r) =>
            /\ req[r].ipCount > PerIpLimit => req[r].resp.status = 429
            /\ (req[r].ipCount = PerIpLimit /\ req[r].glCount <= GlobalLimit)
                  => req[r].resp.status # 429
    /\ \A c \in Clients : passes[c] <= PerIpLimit
    /\ passes[GlobalKey] <= GlobalLimit

C2_Witness ==
    \E r \in Reqs :
        /\ Done(r)
        /\ req[r].ipCount = PerIpLimit + 1
        /\ req[r].resp.status = 429
        /\ passes[req[r].client] = PerIpLimit
        /\ now < storage[req[r].client].expiry

\* C3: a request is admitted only if, when its hits were counted, the
\* per-client counter and the global counter were both below their limits,
\* and it adds exactly one to each; a request that finds either counter at
\* its limit is answered 429.
C3_BothQuotas ==
    \A r \in Reqs :
        /\ Admitted(r) =>
              /\ req[r].ipBefore >= 0 /\ req[r].ipBefore < PerIpLimit
              /\ req[r].glBefore >= 0 /\ req[r].glBefore < GlobalLimit
              /\ req[r].ipCount = req[r].ipBefore + 1
              /\ req[r].glCount = req[r].glBefore + 1
              /\ storage[req[r].client].count = req[r].ipCount
              /\ storage[GlobalKey].count = req[r].glCount
        /\ (Done(r) /\ (req[r].ipBefore >= PerIpLimit \/ req[r].glBefore >= GlobalLimit))
              => req[r].resp.status = 429

\* the global quota alone is exhausted
C3_Witness ==
    \E r \in Reqs :
        /\ Done(r)
        /\ req[r].resp.status = 429
        /\ req[r].ipBefore >= 0 /\ req[r].ipBefore < PerIpLimit
        /\ req[r].glBefore >= GlobalLimit

\* C4: once the window in which a client was rejected on its per-IP limit
\* has ended, the client's next request passes the per-IP limit, and it is
\* admitted unless the global limit is exhausted.
C4_NoStarvation ==
    \A r \in Reqs :
        req[r].ipRoll =>
            /\ req[r].ipCount >= 1 /\ req[r].ipCount <= PerIpLimit
            /\ (Done(r) /\ req[r].glCount <= GlobalLimit) => req[r].resp.status # 429

C4_Witness ==
    \E r \in Reqs :
        /\ Done(r)
        /\ req[r].ipRoll
        /\ breach[req[r].client] >= 0
        /\ req[r].glCount >= 1
        /\ req[r].resp.status # 429

\* C5: GET /health answers 200 and counts against no limit, also when the
\* caller's per-IP quota and the global quota are both exhausted, under
\* every configuration.
C5_HealthAlways200 ==
    health.status # 0 => (health.status = 200 /\ ~health.consumed)

C5_Witness ==
    /\ health.status = 200
    /\ health.exhausted
    /\ ~validate(config)

\* C6 as stated: a request without a hostname field is answered 400 with
\* exactly {"error": "hostname parameter is required"} and no controller call.
C6_Original ==
    \A r \in Reqs :
        (Done(r) /\ req[r].body.kind = "nofield")
            => /\ req[r].resp = jsonify_error("hostname parameter is required", 400)
               /\ req[r].calls = <<>>

\* C6: a request whose JSON object or form has no hostname field, once the
\* limiter has admitted it, is answered 400 with exactly
\* {"error": "hostname parameter is required"} and makes no controller call.
C6_MissingHostname400 ==
    \A r \in Reqs :
        (Done(r) /\ req[r].body.kind = "nofield" /\ req[r].resp.status # 429)
            => /\ req[r].resp = jsonify_error("hostname parameter is required", 400)
               /\ req[r].calls = <<>>

C6_Witness ==
    \E r \in Reqs :
        /\ Done(r)
        /\ req[r].body.kind = "nofield"
        /\ req[r].resp.status = 400
        /\ req[r].glCount >= 1

\* C7 as stated: every hostname string the sanitizer rejects, the empty
\* string included, is answered 400 'Invalid hostname format', for each
\* request of a sequence sent by one client.
C7_InvalidHostname400 ==
    \A r \in Reqs :
        (Done(r) /\ req[r].body.kind = "string"
                 /\ sanitize_hostname(req[r].body.hostname) = None)
            => /\ req[r].resp.status = 400
               /\ req[r].resp.error = "Invalid hostname format"

\* C8: when the controller client reports success, the response is 200 with
\* success = true, the job id and job type of the client's result, and the
\* lowercased, trimmed hostname that was passed to the client.
C8_SuccessEchoesSanitized ==
    \A r \in Reqs :
        (Done(r) /\ req[r].result.kind = "success")
            => /\ req[r].resp.status = 200
               /\ req[r].resp.success
               /\ req[r].resp.job_id = req[r].result.job_id
               /\ req[r].resp.job_type = req[r].result.job_type
               /\ req[r].resp.hostname = lower(strip(req[r].body.hostname))
               /\ req[r].resp.hostname = sanitize_hostname(req[r].body.hostname)
               /\ req[r].calls[Len(req[r].calls)].hostname = req[r].resp.hostname

C8_Witness ==
    \E r \in Reqs :
        /\ Done(r)
        /\ req[r].result.kind = "success"
        /\ req[r].resp.status = 200
        /\ req[r].resp.hostname # req[r].body.hostname
        /\ req[r].resp.job_type = "workflow"

\* C9: when the resolve GET returns no results, the client returns the
\* failure '<Kind> not found' without a launch POST, and the response is 500
\* with that error.
C9_NotFoundNoLaunch ==
    \A r \in Reqs :
        (req[r].calls # <<>> /\ req[r].calls[1].outcome = "empty")
            => /\ Done(r)
               /\ Len(req[r].calls) = 1
               /\ req[r].calls[1].method = "GET"
               /\ req[r].result = Failure(not_found(req[r].calls[1].endpoint))
               /\ req[r].result.error \in {"Template not found", "Workflow not found"}
               /\ req[r].resp.status = 500
               /\ req[r].resp.error = req[r].result.error

C9_Witness ==
    \E r \in Reqs :
        /\ Done(r)
        /\ req[r].calls # <<>>
        /\ req[r].calls[1].outcome = "empty"
        /\ req[r].resp.error = "Workflow not found"

\* how far the handling of a request has come
Rank(q) ==
    CASE q.pc = "idle" -> 0
      [] q.pc = "limits" -> q.idx
      [] q.pc = "body" -> 3
      [] q.pc = "resolve" -> 4
      [] q.pc = "launch" -> 5
      [] q.pc = "done" -> 6

\* every step of a request in flight brings it nearer to its response
Advances ==
    \A r \in Reqs :
        (req[r].pc \notin {"idle", "done"} /\ req'[r] # req[r])
            => Rank(req'[r]) > Rank(req[r])

\* the response of every request, and where a request in flight stands
ResponseMapping ==
    \A r \in Reqs :
        /\ req[r].pc \in {"idle", "limits", "body", "resolve", "launch", "done"}
        /\ req[r].pc = "limits" => req[r].idx \in 1..Len(limitOrder)
        /\ ~Done(r) => req[r].resp = NoResp
        /\ Done(r) =>
              /\ req[r].resp.status \in {200, 400, 429, 500}
              /\ (req[r].resp.status = 200) <=> (req[r].result.kind = "success")
              /\ req[r].result.kind = "failure" =>
                    /\ req[r].resp.status = 500
                    /\ "success" \in req[r].resp.keys
                    /\ ~req[r].resp.success
                    /\ req[r].resp.error = req[r].result.error

\* C10: every step of a request in flight brings it nearer to its
\* response, it has no response until it is done
\* and then one whose status is 200, 400, 429 or 500; the status is 200
\* exactly when the client returned Success, and a Failure of the client is
\* answered 500 with success = false and the failure's error.
C10_OneResponse == []ResponseMapping /\ [][Advances]_vars

C10_Witness ==
    \E r \in Reqs :
        /\ Done(r)
        /\ req[r].result.kind = "failure"
        /\ req[r].result.error = "AWX API timeout"
        /\ req[r].resp.status = 500

\* an exception that is neither a timeout nor a transport error was raised
\* while the request was handled: in the handler body (a JSON body that is
\* no object), or inside the controller client
UnexpectedRaised(r) ==
    \/ req[r].body.kind = "nonobject"
    \/ \E i \in 1..Len(req[r].calls) : req[r].calls[i].outcome = "unexpected"

\* C11 as stated: an unexpected exception at any stage of an admitted
\* request, inside the controller client included, is answered with the
\* generic 500 {"error": "Internal server error"} that carries no detail.
C11_Generic500 ==
    \A r \in Reqs :
        (Done(r) /\ req[r].resp.status # 429 /\ UnexpectedRaised(r))
            => req[r].resp = jsonify_error("Internal server error", 500)

\* C12: a timeout of the resolve GET or of the launch POST ends the client
\* with the failure 'AWX API timeout', which no other outcome produces; a
\* transport error or non-2xx response of either call ends it with the
\* failure 'AWX API error: <detail>'; the failed call is the last call of
\* the request.
C12_TimeoutAndTransport ==
    \A r \in Reqs :
        /\ \A i \in 1..Len(req[r].calls) :
              /\ req[r].calls[i].outcome = "timeout" =>
                    /\ Done(r)
                    /\ i = Len(req[r].calls)
                    /\ req[r].result = Failure("AWX API timeout")
              /\ req[r].calls[i].outcome = "error" =>
                    /\ Done(r)
                    /\ i = Len(req[r].calls)
                    /\ req[r].result = Failure("AWX API error: detail")
        /\ req[r].result.error = "AWX API timeout" =>
              req[r].calls[Len(req[r].calls)].outcome = "timeout"

\* the launch POST timed out after a resolve GET that found the template
C12_Witness ==
    \E r \in Reqs :
        /\ Done(r)
        /\ Len(req[r].calls) = 2
        /\ req[r].calls[2].outcome = "timeout"
        /\ req[r].result.error = "AWX API timeout"

\* a character that is not in [a-z0-9.-]
Outside(c) == c \notin {"a", "b", "0", "1", ".", "-"}

HasOutside(s) == \E i \in 1..Len(s) : Outside(s[i])

\* C13 as stated: every string that, lowercased, contains a character
\* outside [a-z0-9.-] is rejected.
C13_Original ==
    (san.pc \in {"once", "twice"} /\ san.input # None /\ HasOutside(lower(san.input)))
        => san.once = None

\* C13: every string that, with its surrounding whitespace removed and
\* lowercased, contains a character outside [a-z0-9.-] is rejected.
C13_OutsideRejected ==
    (san.pc \in {"once", "twice"} /\ san.input # None
        /\ HasOutside(lower(strip(san.input))))
        => san.once = None

C13_Witness ==
    /\ san.pc = "once"
    /\ san.input = <<"a", "_", "A">>
    /\ san.once = None

\* C14: on every input it accepts, sanitize_hostname returns the input
\* lowercased and trimmed (no upper-case letter, no whitespace at either
\* end), and sanitizing that result again returns it unchanged.
C14_Idempotent ==
    (san.pc = "twice" /\ san.once # None)
        => /\ san.twice = san.once
           /\ san.once = lower(strip(san.input))
           /\ \A i \in 1..Len(san.once) : san.once[i] \notin {"A", "B"}
           /\ ~IsSpace(san.once[1])
           /\ ~IsSpace(san.once[Len(san.once)])
           /\ Len(san.once) >= MIN_HOSTNAME_LENGTH
           /\ Len(san.once) <= MAX_HOSTNAME_LENGTH

\* an accepted input in upper case between whitespace
C14_Witness ==
    /\ san.pc = "twice"
    /\ san.input = <<" ", "A", ".", "a", " ">>
    /\ san.once = <<"a", ".", "a">>
    /\ san.twice = san.once

\* C15: a request makes at most one resolve GET and at most one launch
\* POST, in that order; the POST follows only a GET that returned a result,
\* and a call that failed is the last call of the request.
C15_OneGetOnePost ==
    \A r \in Reqs :
        /\ Len(req[r].calls) <= 2
        /\ req[r].calls # <<>> => req[r].calls[1].method = "GET"
        /\ Len(req[r].calls) = 2 =>
              /\ req[r].calls[1].outcome = "found"
              /\ req[r].calls[2].method = "POST"
              /\ req[r].calls[2].endpoint = req[r].calls[1].endpoint
        /\ \A i \in 1..Len(req[r].calls) :
              req[r].calls[i].outcome \notin {"found", "ok"} => i = Len(req[r].calls)
        /\ req[r].pc = "launch" =>
              (Len(req[r].calls) = 1 /\ req[r].calls[1].outcome = "found")

\* the launch POST failed and was not tried again
C15_Witness ==
    \E r \in Reqs :
        /\ Done(r)
        /\ Len(req[r].calls) = 2
        /\ req[r].calls[2].outcome = "error"
        /\ req[r].resp.status = 500

\* C17: only a request that both limits admitted and whose hostname the
\* sanitizer accepted reaches the controller, every call that carries a
\* hostname carries the sanitizer's output, and a request answered 429 or
\* 400 has made no call.
C17_ClientOnlyAfterChecks ==
    \A r \in Reqs :
        /\ (req[r].calls # <<>> \/ req[r].pc \in {"resolve", "launch"}) =>
              /\ req[r].ipCount >= 1 /\ req[r].ipCount <= PerIpLimit
              /\ req[r].glCount >= 1 /\ req[r].glCount <= GlobalLimit
              /\ req[r].body.kind = "string"
              /\ sanitize_hostname(req[r].body.hostname) # None
              /\ req[r].hostname = sanitize_hostname(req[r].body.hostname)
              /\ req[r].hostname = lower(strip(req[r].body.hostname))
        /\ \A i \in 1..Len(req[r].calls) :
              req[r].calls[i].method = "POST" =>
                  req[r].calls[i].hostname = sanitize_hostname(req[r].body.hostname)
        /\ (Done(r) /\ req[r].resp.status \in {400, 429}) => req[r].calls = <<>>

C17_Witness ==
    \E r \in Reqs :
        /\ Len(req[r].calls) = 2
        /\ req[r].calls[2].method = "POST"
        /\ req[r].calls[2].hostname = <<"a", ".", "b">>
        /\ req[r].body.hostname = <<" ", "A", ".", "b">>

\* exactly one of the template name and the workflow name is set
ExactlyOneName ==
    \/ (config.AWX_TEMPLATE_NAME /\ ~config.AWX_WORKFLOW_NAME)
    \/ (~config.AWX_TEMPLATE_NAME /\ config.AWX_WORKFLOW_NAME)

\* C18 as stated: whenever the service handles requests, the configuration
\* names exactly one of the template and the workflow.
C18_Original == (\E r \in Reqs : req[r].pc # "idle") => ExactlyOneName

\* C18: outside development mode, whenever the service handles requests,
\* the configuration names exactly one of the template and the workflow.
C18_ExactlyOneInProduction == ~development => ExactlyOneName

C18_Witness ==
    /\ ~development
    /\ ExactlyOneName
    /\ \E r \in Reqs : Done(r) /\ req[r].resp.status = 200

\* C20: with both names set the client works in template mode only, and
\* with neither set it makes no call and returns nothing, so that an
\* admitted request with an accepted hostname is answered with the generic
\* 500 {"error": "Internal server error"}.
C20_InvalidConfig ==
    \A r \in Reqs :
        /\ (config.AWX_TEMPLATE_NAME /\ config.AWX_WORKFLOW_NAME) =>
              /\ \A i \in 1..Len(req[r].calls) : req[r].calls[i].endpoint = "template"
              /\ req[r].result.kind = "success" => req[r].result.job_type = "template"
        /\ (~config.AWX_TEMPLATE_NAME /\ ~config.AWX_WORKFLOW_NAME) =>
              /\ req[r].calls = <<>>
              /\ req[r].pc # "launch"
              /\ req[r].result.kind \in {"pending", "none"}
              /\ (Done(r) /\ req[r].hostname # None) =>
                    /\ req[r].result = ReturnedNone
                    /\ req[r].resp = jsonify_error("Internal server error", 500)

\* neither name is set and a request with an accepted hostname was answered
C20_Witness ==
    \E r \in Reqs :
        /\ development
        /\ ~config.AWX_TEMPLATE_NAME /\ ~config.AWX_WORKFLOW_NAME
        /\ Done(r)
        /\ req[r].hostname # None
        /\ req[r].resp.status = 500

\* both names are set and a template job was launched
C20_WitnessBoth ==
    \E r \in Reqs :
        /\ config.AWX_TEMPLATE_NAME /\ config.AWX_WORKFLOW_NAME
        /\ Done(r)
        /\ req[r].resp.status = 200
        /\ req[r].resp.job_type = "template"

\* the limit of a key
LimitOf(k) == IF k = GlobalKey THEN GlobalLimit ELSE PerIpLimit

\* the workers whose request was within the per-IP limit in the window of
\* client c that ends at e
PassedIn(c, e) ==
    {r \in ConcReqs : /\ req[r].pc # "idle"
                      /\ req[r].client = c
                      /\ req[r].ipExpiry = e
                      /\ req[r].ipCount >= 1
                      /\ req[r].ipCount <= PerIpLimit}

====
